---- MODULE Spec2Model ----
(***************************************************************************)
(* State-machine model of db/init_sqlite.py: the one-shot SQLite           *)
(* initializer main().  One behaviour is a sequence of runs of main()      *)
(* over a persistent filesystem (the file at DB_PATH, its parent           *)
(* directory, the schema file).  Each statement group of main() is one     *)
(* action; pc is the position of the running process inside main().        *)
(* The outcome of every fallible call (makedirs, open/read, connect,       *)
(* executescript, commit, print inside the try block, remove) is chosen    *)
(* by the environment.                                                     *)
(***************************************************************************)
EXTENDS Integers, Sequences, FiniteSets, TLC

\* ----- bounds ------------------------------------------------------------
MaxStmts == 2       \* longest schema script, in statements
MaxRuns == 2        \* number of consecutive runs of main() in one behaviour

\* ----- value sets --------------------------------------------------------
\* os.environ.get(...) : None, "" or a non-empty string
EnvValues == {"unset", "empty", "set"}

\* what open(schema_path,'r') / f.read() meets on disk
SchemaFileStates == {"missing", "denied", "undecodable", "readable"}

\* exception classes as the except clauses tell them apart
ErrKinds == {"sqlite", "io", "other"}

\* a schema script: a sequence of statements, TRUE = the engine accepts it,
\* FALSE = the engine raises sqlite3.Error when it executes it
RECURSIVE ScriptsOfLen(_)
ScriptsOfLen(n) ==
    IF n = 0 THEN {<<>>}
    ELSE {Append(s, b) : s \in ScriptsOfLen(n - 1), b \in BOOLEAN}

Scripts == UNION {ScriptsOfLen(n) : n \in 0..MaxStmts}

\* the thing at DB_PATH
Absent == [kind |-> "absent", stmts |-> 0, committed |-> FALSE]
Foreign == [kind |-> "foreign", stmts |-> 0, committed |-> FALSE]
EmptyDb == [kind |-> "db", stmts |-> 0, committed |-> FALSE]

VARIABLES
    pc,           \* position inside main(); "idle" before the first run
    runs,         \* number of runs started
    dbPathEnv,    \* os.environ.get("DB_PATH")
    schemaPathEnv,\* os.environ.get("SCHEMA_PATH")
    hasDir,       \* os.path.dirname(db_path) is non-empty
    dbFile,       \* what is at DB_PATH
    dirExists,    \* the parent directory of DB_PATH exists
    schemaFile,   \* state of the file at SCHEMA_PATH
    schemaText,   \* statements of the file at SCHEMA_PATH
    schema_sql,   \* local: text read from the schema file
    conn,         \* local: "none" (None), "open", "closed"
    err,          \* exception in flight: "none" or an ErrKinds member
    exitStatus,   \* -1 while running, else the process status
    ops,          \* filesystem/engine calls made by this run, in order
    startDb,      \* dbFile when the run started
    startDir,     \* dirExists when the run started
    raised,       \* class of the exception this run raised, or "none"
    raisedAt,     \* pc at which it was raised, or "none"
    prevFailed,   \* previous run started with DB_PATH absent and exited # 0
    rmFailed      \* os.remove raised OSError in this run

vars == <<pc, runs, dbPathEnv, schemaPathEnv, hasDir, dbFile, dirExists,
          schemaFile, schemaText, schema_sql, conn, err, exitStatus, ops,
          startDb, startDir, raised, raisedAt, prevFailed, rmFailed>>

env == <<dbPathEnv, schemaPathEnv, hasDir, schemaFile, schemaText>>
hist == <<startDb, startDir, prevFailed, runs>>

\* os.path.exists(db_path)
Exists(f) == f.kind # "absent"

\* ----- pure helpers ------------------------------------------------------
\* number of leading statements executescript applies before one fails
RECURSIVE AppliedPrefix(_)
AppliedPrefix(s) ==
    IF s = <<>> THEN 0
    ELSE IF Head(s) THEN 1 + AppliedPrefix(Tail(s))
    ELSE 0

\* the except clause that catches an exception of class k: clauses are
\* tried in textual order sqlite3.Error, IOError, Exception
ExceptClause(k) ==
    IF k = "sqlite" THEN "h_sqlite"
    ELSE IF k = "io" THEN "h_io"
    ELSE "h_other"

\* raise exception class k at the current position inside the try block
Raise(k) ==
    /\ err' = k
    /\ raised' = k
    /\ raisedAt' = pc
    /\ pc' = ExceptClause(k)

NoRaise == UNCHANGED <<err, raised, raisedAt>>

\* ----- Init --------------------------------------------------------------
Init ==
    /\ pc = "idle"
    /\ runs = 0
    /\ dbPathEnv = "unset"
    /\ schemaPathEnv = "unset"
    /\ hasDir \in BOOLEAN
    /\ dbFile \in {Absent, Foreign}
    /\ dirExists \in BOOLEAN
    /\ (Exists(dbFile) /\ hasDir => dirExists)
    /\ schemaFile = "missing"
    /\ schemaText = <<>>
    /\ schema_sql = <<>>
    /\ conn = "none"
    /\ err = "none"
    /\ exitStatus = -1
    /\ ops = <<>>
    /\ startDb = dbFile
    /\ startDir = dirExists
    /\ raised = "none"
    /\ raisedAt = "none"
    /\ prevFailed = FALSE
    /\ rmFailed = FALSE

\* ----- process start -----------------------------------------------------
\* a new process: the environment picks the two variables and the schema
\* file; the filesystem at DB_PATH is what the previous run left
StartRun ==
    /\ pc \in {"idle", "done"}
    /\ runs < MaxRuns
    /\ runs' = runs + 1
    /\ dbPathEnv' \in EnvValues
    /\ schemaPathEnv' \in EnvValues
    /\ schemaFile' \in SchemaFileStates
    /\ schemaText' \in (IF schemaFile' = "readable" THEN Scripts ELSE {<<>>})
    /\ prevFailed' = (pc = "done" /\ ~Exists(startDb) /\ exitStatus # 0)
    /\ startDb' = dbFile
    /\ startDir' = dirExists
    /\ pc' = "config"
    /\ schema_sql' = <<>>
    /\ conn' = "none"
    /\ err' = "none"
    /\ exitStatus' = -1
    /\ ops' = <<>>
    /\ raised' = "none"
    /\ raisedAt' = "none"
    /\ rmFailed' = FALSE
    /\ UNCHANGED <<hasDir, dbFile, dirExists>>

\* leave the process with status code c without passing through finally
\* (sys.exit outside the try block)
ExitNow(c) ==
    /\ exitStatus' = c
    /\ pc' = "done"

\* ----- lines 7-15: configuration ----------------------------------------
\* `if not db_path` / `if not schema_path`: None and "" both fail
ValidateConfig_DbPathOnly ==
    /\ pc = "config"
    /\ IF dbPathEnv # "set"
       THEN ExitNow(1)
       ELSE pc' = "check" /\ UNCHANGED exitStatus
    /\ UNCHANGED <<env, hist, dbFile, dirExists, schema_sql, conn, err, ops,
                   raised, raisedAt, rmFailed>>

ValidateConfig ==
    /\ pc = "config"
    /\ IF dbPathEnv # "set"
       THEN ExitNow(1)
       ELSE IF schemaPathEnv # "set"
            THEN ExitNow(1)
            ELSE pc' = "check" /\ UNCHANGED exitStatus
    /\ UNCHANGED <<env, hist, dbFile, dirExists, schema_sql, conn, err, ops,
                   raised, raisedAt, rmFailed>>

\* ----- lines 17-21: existence check -------------------------------------
CheckExists_NoSkip ==
    /\ pc = "check"
    /\ ops' = Append(ops, "exists")
    /\ pc' = "mkdir"
    /\ UNCHANGED <<env, hist, dbFile, dirExists, schema_sql, conn, err,
                   exitStatus, raised, raisedAt, rmFailed>>

CheckExists ==
    /\ pc = "check"
    /\ ops' = Append(ops, "exists")
    /\ IF Exists(dbFile)
       THEN ExitNow(0)
       ELSE pc' = "mkdir" /\ UNCHANGED exitStatus
    /\ UNCHANGED <<env, hist, dbFile, dirExists, schema_sql, conn, err,
                   raised, raisedAt, rmFailed>>

\* ----- lines 24-31: parent directory ------------------------------------
\* makedirs(exist_ok=True) returns when the directory is there; when it is
\* not, it creates it or raises OSError, which exits 1 at once
EnsureDir ==
    /\ pc = "mkdir"
    /\ IF ~hasDir
       THEN /\ pc' = "read"
            /\ UNCHANGED <<dirExists, ops, exitStatus, raised, raisedAt>>
       ELSE /\ ops' = Append(ops, "makedirs")
            /\ \/ /\ dirExists' = TRUE
                  /\ pc' = "read"
                  /\ UNCHANGED <<exitStatus, raised, raisedAt>>
               \/ /\ ~dirExists
                  /\ raised' = "io"
                  /\ raisedAt' = "mkdir"
                  /\ ExitNow(1)
                  /\ UNCHANGED dirExists
    /\ UNCHANGED <<env, hist, dbFile, schema_sql, conn, err, rmFailed>>

\* ----- lines 35-37: read the schema -------------------------------------
\* open() raises OSError for a missing or unreadable file; f.read() raises
\* UnicodeDecodeError (a ValueError) for bytes that do not decode
ReadSchema_Swallow ==
    /\ pc = "read"
    /\ ops' = Append(ops, "read")
    /\ schema_sql' = schemaText
    /\ pc' = "connect"
    /\ NoRaise
    /\ UNCHANGED <<env, hist, dbFile, dirExists, conn, exitStatus, rmFailed>>

ReadSchema ==
    /\ pc = "read"
    /\ ops' = Append(ops, "read")
    /\ IF schemaFile \in {"missing", "denied"}
       THEN Raise("io") /\ UNCHANGED schema_sql
       ELSE IF schemaFile = "undecodable"
            THEN Raise("other") /\ UNCHANGED schema_sql
            ELSE /\ schema_sql' = schemaText
                 /\ pc' = "connect"
                 /\ NoRaise
    /\ UNCHANGED <<env, hist, dbFile, dirExists, conn, exitStatus, rmFailed>>

\* ----- lines 39-41: open the database -----------------------------------
\* sqlite3.connect creates an empty file when none is there; when it
\* raises, conn is still None
Connect ==
    /\ pc = "connect"
    /\ ops' = Append(ops, "connect")
    /\ \/ /\ conn' = "open"
          /\ dbFile' = IF Exists(dbFile) THEN dbFile ELSE EmptyDb
          /\ pc' = "exec"
          /\ NoRaise
       \/ /\ Raise("sqlite")
          /\ UNCHANGED <<conn, dbFile>>
    /\ UNCHANGED <<env, hist, dirExists, schema_sql, exitStatus, rmFailed>>

\* ----- lines 43-44: run the script --------------------------------------
\* executescript runs the statements in order in autocommit mode: each
\* accepted statement is in the file when the next one starts, and the
\* first rejected one raises sqlite3.Error.  executescript raises
\* ValueError and the like before it runs anything; print (line 43) can
\* raise OSError, and then executescript is not called
ExecuteScript_FirstOnly ==
    /\ pc = "exec"
    /\ \/ /\ ops' = Append(ops, "executescript")
          /\ dbFile' = [dbFile EXCEPT !.stmts =
                            IF AppliedPrefix(schema_sql) > 0 THEN 1 ELSE 0]
          /\ IF AppliedPrefix(schema_sql) = 0 /\ Len(schema_sql) > 0
             THEN Raise("sqlite")
             ELSE pc' = "commit" /\ NoRaise
       \/ /\ ops' = Append(ops, "executescript")
          /\ Raise("other")
          /\ UNCHANGED dbFile
       \/ /\ Raise("io")
          /\ UNCHANGED <<ops, dbFile>>
    /\ UNCHANGED <<env, hist, dirExists, schema_sql, conn, exitStatus,
                   rmFailed>>

ExecuteScript ==
    /\ pc = "exec"
    /\ \/ /\ ops' = Append(ops, "executescript")
          /\ dbFile' = [dbFile EXCEPT !.stmts = AppliedPrefix(schema_sql)]
          /\ IF AppliedPrefix(schema_sql) < Len(schema_sql)
             THEN Raise("sqlite")
             ELSE pc' = "commit" /\ NoRaise
       \/ /\ ops' = Append(ops, "executescript")
          /\ Raise("other")
          /\ UNCHANGED dbFile
       \/ /\ Raise("io")
          /\ UNCHANGED <<ops, dbFile>>
    /\ UNCHANGED <<env, hist, dirExists, schema_sql, conn, exitStatus,
                   rmFailed>>

\* ----- lines 46-48: commit ----------------------------------------------
\* the commit is done and the try block ends, unless print (line 48)
\* raises OSError after it; or commit raises; or print (line 46) raises
\* OSError and commit is not called
Commit ==
    /\ pc = "commit"
    /\ \/ /\ ops' = Append(ops, "commit")
          /\ dbFile' = [dbFile EXCEPT !.committed = TRUE]
          /\ \/ pc' = "finally" /\ NoRaise
             \/ Raise("io")
       \/ /\ ops' = Append(ops, "commit")
          /\ \E k \in {"sqlite", "other"} : Raise(k)
          /\ UNCHANGED dbFile
       \/ /\ Raise("io")
          /\ UNCHANGED <<ops, dbFile>>
    /\ UNCHANGED <<env, hist, dirExists, schema_sql, conn, exitStatus,
                   rmFailed>>

\* ----- lines 50-54 and 65-69: close before cleaning up -------------------
HandlerClose_NoClose ==
    /\ pc \in {"h_sqlite", "h_other"}
    /\ pc' = "h_remove"
    /\ UNCHANGED <<env, hist, dbFile, dirExists, schema_sql, conn, err,
                   exitStatus, ops, raised, raisedAt, rmFailed>>

HandlerClose ==
    /\ pc \in {"h_sqlite", "h_other"}
    /\ conn' = IF conn # "none" THEN "closed" ELSE conn
    /\ pc' = "h_remove"
    /\ UNCHANGED <<env, hist, dbFile, dirExists, schema_sql, err,
                   exitStatus, ops, raised, raisedAt, rmFailed>>

\* ----- lines 55-61 and 70-76: delete the file, exit 1 --------------------
\* os.remove deletes the file or raises OSError, which is only reported
HandlerRemove_NoRemove ==
    /\ pc = "h_remove"
    /\ err' = "none"
    /\ exitStatus' = 1
    /\ pc' = "finally"
    /\ UNCHANGED <<env, hist, dbFile, dirExists, schema_sql, conn, ops,
                   raised, raisedAt, rmFailed>>

HandlerRemove ==
    /\ pc = "h_remove"
    /\ IF Exists(dbFile)
       THEN /\ ops' = Append(ops, "remove")
            /\ \/ dbFile' = Absent /\ UNCHANGED rmFailed
               \/ rmFailed' = TRUE /\ UNCHANGED dbFile
       ELSE UNCHANGED <<ops, dbFile, rmFailed>>
    /\ err' = "none"
    /\ exitStatus' = 1
    /\ pc' = "finally"
    /\ UNCHANGED <<env, hist, dirExists, schema_sql, conn, raised, raisedAt>>

\* ----- lines 62-64: file error ------------------------------------------
HandleIOError_NoExit ==
    /\ pc = "h_io"
    /\ err' = "none"
    /\ pc' = "finally"
    /\ UNCHANGED <<env, hist, dbFile, dirExists, schema_sql, conn, ops,
                   exitStatus, raised, raisedAt, rmFailed>>

HandleIOError ==
    /\ pc = "h_io"
    /\ err' = "none"
    /\ exitStatus' = 1
    /\ pc' = "finally"
    /\ UNCHANGED <<env, hist, dbFile, dirExists, schema_sql, conn, ops,
                   raised, raisedAt, rmFailed>>

\* ----- lines 77-80: finally ---------------------------------------------
\* runs on the way out of every path through the try statement; the
\* process then ends with the pending sys.exit status, or 0 when main()
\* returns
Finally_NoClose ==
    /\ pc = "finally"
    /\ exitStatus' = IF exitStatus = -1 THEN 0 ELSE exitStatus
    /\ pc' = "done"
    /\ UNCHANGED <<env, hist, dbFile, dirExists, schema_sql, conn, err, ops,
                   raised, raisedAt, rmFailed>>

Finally ==
    /\ pc = "finally"
    /\ conn' = IF conn # "none" THEN "closed" ELSE conn
    /\ exitStatus' = IF exitStatus = -1 THEN 0 ELSE exitStatus
    /\ pc' = "done"
    /\ UNCHANGED <<env, hist, dbFile, dirExists, schema_sql, err, ops,
                   raised, raisedAt, rmFailed>>

Next ==
    \/ StartRun
    \/ ValidateConfig
    \/ CheckExists
    \/ EnsureDir
    \/ ReadSchema
    \/ Connect
    \/ ExecuteScript
    \/ Commit
    \/ HandlerClose
    \/ HandlerRemove
    \/ HandleIOError
    \/ Finally

Spec == Init /\ [][Next]_vars

\* ----- vocabulary of the properties -------------------------------------
\* both settings present and non-empty in the current run
ConfigOK == dbPathEnv = "set" /\ schemaPathEnv = "set"

InRun == runs >= 1

Done == pc = "done"

\* the calls of a complete initialization, in order
FullSequence ==
    <<"exists">> \o (IF hasDir THEN <<"makedirs">> ELSE <<>>)
                 \o <<"read", "connect", "executescript", "commit">>

IsPrefix(s, t) == Len(s) <= Len(t) /\ SubSeq(t, 1, Len(s)) = s

Did(op) == \E i \in 1..Len(ops) : ops[i] = op

\* the run failed at makedirs or while reading the schema file
EarlyFailure ==
    \/ raisedAt = "mkdir"
    \/ Did("read") /\ schemaFile # "readable"

\* C1: when both settings are set and something exists at DB_PATH, the run
\* only makes the existence check, never touches the file or the directory,
\* and ends with status 0.
C1_SkipLeavesFileUntouched ==
    (InRun /\ ConfigOK /\ Exists(startDb)) =>
        /\ dbFile = startDb
        /\ dirExists = startDir
        /\ conn = "none"
        /\ IsPrefix(ops, <<"exists">>)
        /\ (Done => exitStatus = 0 /\ ops = <<"exists">>)

C1_Witness ==
    /\ Done /\ ConfigOK /\ startDb = Foreign
    /\ schemaFile = "missing" /\ exitStatus = 0 /\ ops = <<"exists">>

\* C2: when DB_PATH or SCHEMA_PATH is unset or empty, the run makes no
\* filesystem or engine call at all, changes nothing, and ends non-zero.
C2_MissingConfigNoIO ==
    (InRun /\ ~ConfigOK) =>
        /\ ops = <<>>
        /\ dbFile = startDb
        /\ dirExists = startDir
        /\ conn = "none"
        /\ (Done => exitStatus # 0)

C2_Witness ==
    /\ Done /\ dbPathEnv = "set" /\ schemaPathEnv = "empty"
    /\ ~Exists(startDb) /\ exitStatus = 1 /\ ops = <<>>

\* C3 as stated: a run that starts with nothing at DB_PATH and raises an
\* engine error ends non-zero with no file at DB_PATH.
C3_Original ==
    (Done /\ ~Exists(startDb) /\ raised = "sqlite") =>
        (exitStatus # 0 /\ ~Exists(dbFile))

\* C3 amended: a run that starts with nothing at DB_PATH and raises an
\* engine error ends non-zero, attempts the deletion whenever the file was
\* created, and a file is left at DB_PATH only when that deletion failed.
C3_EngineErrorRollback ==
    (Done /\ ~Exists(startDb) /\ raised = "sqlite") =>
        /\ exitStatus # 0
        /\ (Exists(dbFile) => rmFailed)
        /\ (raisedAt # "connect" => Did("remove"))

C3_Witness ==
    /\ Done /\ ~Exists(startDb) /\ raised = "sqlite" /\ raisedAt = "exec"
    /\ AppliedPrefix(schema_sql) >= 1
    /\ Did("remove") /\ ~Exists(dbFile) /\ exitStatus = 1

\* C4: a run that starts with nothing at DB_PATH and fails at makedirs or
\* while reading the schema never opens the database, ends non-zero and
\* leaves nothing at DB_PATH.
C4_EarlyFailureNoArtifact ==
    (InRun /\ ConfigOK /\ ~Exists(startDb) /\ EarlyFailure) =>
        /\ ~Did("connect")
        /\ conn = "none"
        /\ ~Exists(dbFile)
        /\ (Done => exitStatus # 0)

C4_Witness ==
    /\ Done /\ ~Exists(startDb) /\ schemaFile = "denied"
    /\ raisedAt = "read" /\ exitStatus = 1

\* C5: a run that starts with nothing at DB_PATH and in which no step
\* fails makes its calls in the order makedirs, read, connect,
\* executescript, commit, and ends with status 0, the directory and the
\* file present, every statement applied and committed.
C5_SuccessfulInitialization ==
    (InRun /\ ConfigOK /\ ~Exists(startDb) /\ raised = "none") =>
        /\ IsPrefix(ops, FullSequence)
        /\ (Done =>
              /\ ops = FullSequence
              /\ exitStatus = 0
              /\ (hasDir => dirExists)
              /\ dbFile.kind = "db"
              /\ dbFile.stmts = Len(schemaText)
              /\ dbFile.committed)

C5_Witness ==
    /\ Done /\ ~Exists(startDb) /\ raised = "none" /\ exitStatus = 0
    /\ hasDir /\ ~startDir /\ dirExists
    /\ Len(schemaText) = 2 /\ dbFile.stmts = 2 /\ dbFile.committed

\* C6: a finished run has status 0 or 1, and 0 exactly when the settings
\* were present and either something existed at DB_PATH or no step of the
\* initialization raised.
C6_ExitStatus ==
    Done =>
        /\ exitStatus \in {0, 1}
        /\ (exitStatus = 0 <=>
              (ConfigOK /\ (Exists(startDb) \/ raised = "none")))

C6_Witness ==
    /\ Done /\ exitStatus = 1 /\ rmFailed /\ Exists(dbFile)
    /\ ~Exists(startDb)

\* C7: a finished run has no open connection.
C7_ConnectionClosed ==
    Done => conn # "open"

C7_Witness ==
    /\ Done /\ conn = "closed" /\ raised = "io" /\ raisedAt = "exec"

\* C8: an error other than an engine error raised after the database was
\* opened gets the engine-error cleanup: connection closed, deletion of the
\* file attempted, status 1.
C8_NonEngineErrorCleanup ==
    (Done /\ raised \in {"io", "other"} /\ raisedAt \in {"exec", "commit"}) =>
        /\ conn = "closed"
        /\ Did("remove")
        /\ exitStatus = 1

\* C9: the run after a failed run that started with nothing at DB_PATH
\* does not skip: when nothing fails in it, it makes the full sequence of
\* calls and ends with status 0 and a fully initialized database.
C9_RerunStartsFromScratch ==
    (Done /\ prevFailed /\ ConfigOK /\ raised = "none") =>
        /\ ops = FullSequence
        /\ exitStatus = 0
        /\ dbFile.kind = "db"
        /\ dbFile.stmts = Len(schemaText)
        /\ dbFile.committed

\* C10: os.remove is called only when no connection is open and a file
\* exists at DB_PATH.
C10_RemoveAfterClose ==
    [][(Len(ops') = Len(ops) + 1 /\ ops'[Len(ops')] = "remove") =>
          (conn # "open" /\ Exists(dbFile))]_vars

C10_Witness ==
    /\ Did("remove") /\ conn = "closed" /\ pc = "finally"
====
